---- MODULE Spec2Model ----
(***************************************************************************)
(* thrmt: samplers for the classical random-matrix ensembles.              *)
(*                                                                         *)
(* src/thrmt/api.py holds the eight validated public entry points and      *)
(* src/thrmt/impl.py the constructors they delegate to.  A call is modelled *)
(* as the straight-line program its Python body executes: the validation   *)
(* statements of the entry point, the call into the constructor, then the  *)
(* constructor's tensor operations (th.randn on the process-wide generator,*)
(* scalar scalings, matrix products, QR, inverse) and its return.  Each    *)
(* execution context runs its program one statement at a time; tensors     *)
(* are tracked by shape, dtype, squared scale factor and finiteness.       *)
(***************************************************************************)
EXTENDS Integers, Sequences, FiniteSets, TLC

VARIABLES pc, args, stack, env, ops, out, rng

vars == <<pc, args, stack, env, ops, out, rng>>

(***************************************************************************)
(* Bounds of the model.                                                    *)
(***************************************************************************)
\* dimensions a caller may pass: -1 .. MaxSize
MaxSize == 2
\* scale parameters a caller may pass: -1 .. MaxSigma (integers stand for floats)
MaxSigma == 2
\* batch axes a caller may pass: 1 .. MaxBatchDim
MaxBatchDim == 2
\* primary dimensions in the two-context specification: 0 .. ConcMaxSize
ConcMaxSize == 1
\* matrix sizes of the entry-level GUE specification: 1 .. ValMaxSize
ValMaxSize == 2

(***************************************************************************)
(* Python values.                                                          *)
(***************************************************************************)
\* Optional[T]: None is the empty tuple, a present value v is <<v>>.
None == <<>>

Some(v) == <<v>>

\* Python's `a or b` on an Optional[int]: None and 0 are falsy.
PyOr(a, b) == IF a = None THEN b ELSE IF a[1] = 0 THEN b ELSE a[1]

real_dtypes == {"float", "double"}

complex_dtypes == {"cfloat", "cdouble"}

Dtypes == real_dtypes \cup complex_dtypes

Sizes == -1 .. MaxSize

OptSizes == {None} \cup {Some(v) : v \in Sizes}

Sigmas == -1 .. MaxSigma

\* the empty batch, every one-axis batch and one two-axis batch
BatchShapes == {<<>>} \cup {<<d>> : d \in 1 .. MaxBatchDim} \cup {<<MaxBatchDim, 1>>}

BatchArgs == {None} \cup {Some(t) : t \in BatchShapes}

RECURSIVE Numel(_)
Numel(shape) == IF shape = <<>> THEN 1 ELSE Head(shape) * Numel(Tail(shape))

RECURSIVE Gcd(_, _)
Gcd(a, b) == IF b = 0 THEN a ELSE Gcd(b, a % b)

\* a non-negative fraction <<n, d>> in lowest terms
Frac(n, d) == IF d = 0 THEN <<n, 0>> ELSE <<n \div Gcd(n, d), d \div Gcd(n, d)>>

FracMul(f, g) == Frac(f[1] * g[1], f[2] * g[2])

(***************************************************************************)
(* Validation predicates of thrmt.auxiliary and the error each raises.     *)
(***************************************************************************)
check_size(size) == size >= 1

check_sigma(sigma) == sigma > 0

check_dtype(dtype, family) == dtype \in family

ValidationErrors == {"InvalidDimension", "InvalidScale", "InvalidDtype"}

(***************************************************************************)
(* Statements.                                                             *)
(***************************************************************************)
CheckSize(v, param) == [op |-> "check_size", v |-> v, param |-> param]

CheckSigma(v, param) == [op |-> "check_sigma", v |-> v, param |-> param]

CheckDtype(d, family, param) == [op |-> "check_dtype", d |-> d, family |-> family, param |-> param]

\* fn(**kw) on a constructor of thrmt.impl: push the callee's frame, run its body
Call(fn, kw, body) == <<[op |-> "call", fn |-> fn, kw |-> kw]>> \o body

\* return <src>: the caller reads the value as local "ret"
Ret(src) == [op |-> "ret", src |-> src]

\* dst = th.randn(*shape, dtype=dtype)
Randn(dst, shape, dtype) == [op |-> "randn", dst |-> dst, shape |-> shape, dtype |-> dtype]

\* dst = src * k
Mul(dst, src, k) == [op |-> "scalar", dst |-> dst, src |-> src, f |-> Frac(k * k, 1)]

\* dst = src / msqrt(n / d)
DivSqrt(dst, src, n, d) == [op |-> "scalar", dst |-> dst, src |-> src, f |-> Frac(d, n)]

\* dst = src * msqrt(n)
MulSqrt(dst, src, n) == [op |-> "scalar", dst |-> dst, src |-> src, f |-> Frac(n, 1)]

\* dst = A @ B, A = a.transpose(-2, -1) when ta, B = b.transpose(-2, -1) when tb,
\* the transposed operand conjugated when conj
MatMul(dst, a, ta, b, tb, conj) ==
    [op |-> "matmul", dst |-> dst, a |-> a, ta |-> ta, b |-> b, tb |-> tb, conj |-> conj]

\* dst = a + B, B = b.transpose(-2, -1) when tb, conjugated when conj
Add(dst, a, b, tb, conj) ==
    [op |-> "add", dst |-> dst, a |-> a, b |-> b, tb |-> tb, conj |-> conj]

\* q, r = th.linalg.qr(src)
QR(q, r, src) == [op |-> "qr", q |-> q, r |-> r, src |-> src]

\* d = src.diagonal(dim1=-2, dim2=-1); dst = th.diag_embed(d / th.abs(d))
DiagPhase(dst, src) == [op |-> "diag_phase", dst |-> dst, src |-> src]

\* dst = th.linalg.inv(src)
Inv(dst, src) == [op |-> "inv", dst |-> dst, src |-> src]

(***************************************************************************)
(* Constructors (src/thrmt/impl.py).                                       *)
(***************************************************************************)
impl_random_gre(kw) ==
    <<Randn("x", kw.batch_shape \o <<kw.size, kw.size>>, kw.dtype)>>
    \o (IF kw.nnorm THEN <<DivSqrt("x", "x", kw.size, 1)>> ELSE <<>>)
    \o <<Ret("x")>>

\* impl_random_gce dividing by msqrt(size) where the source divides by msqrt(size / 2)
impl_random_gce_half_dropped(kw) ==
    <<Randn("x", kw.batch_shape \o <<kw.size, kw.size>>, kw.dtype)>>
    \o (IF kw.nnorm /\ ~kw.cnorm
        THEN <<DivSqrt("x", "x", kw.size, 1)>>
        ELSE (IF kw.nnorm THEN <<DivSqrt("x", "x", kw.size, 1)>> ELSE <<>>)
             \o (IF ~kw.cnorm THEN <<MulSqrt("x", "x", 2)>> ELSE <<>>))
    \o <<Ret("x")>>

impl_random_gce(kw) ==
    <<Randn("x", kw.batch_shape \o <<kw.size, kw.size>>, kw.dtype)>>
    \o (IF kw.nnorm /\ ~kw.cnorm
        THEN <<DivSqrt("x", "x", kw.size, 2)>>
        ELSE (IF kw.nnorm THEN <<DivSqrt("x", "x", kw.size, 1)>> ELSE <<>>)
             \o (IF ~kw.cnorm THEN <<MulSqrt("x", "x", 2)>> ELSE <<>>))
    \o <<Ret("x")>>

impl_random_cue(kw) ==
    LET k == [size |-> kw.size, nnorm |-> FALSE, cnorm |-> TRUE,
              dtype |-> kw.dtype, batch_shape |-> kw.batch_shape]
    IN  Call("random_gce", k, impl_random_gce(k))
        \o <<QR("q", "r", "ret"),
             DiagPhase("d", "r"),
             MatMul("u", "q", FALSE, "d", FALSE, FALSE),
             Ret("u")>>

impl_random_coe(kw) ==
    Call("random_cue", kw, impl_random_cue(kw))
    \o <<MatMul("a", "ret", TRUE, "ret", FALSE, FALSE), Ret("a")>>

impl_random_gue(kw) ==
    LET k == [size |-> kw.size, nnorm |-> FALSE, cnorm |-> TRUE,
              dtype |-> kw.dtype, batch_shape |-> kw.batch_shape]
    IN  Call("random_gce", k, impl_random_gce(k))
        \o <<Mul("x", "ret", kw.sigma),
             Add("s", "x", "x", TRUE, TRUE),
             DivSqrt("h", "s", 2, 1),
             Ret("h")>>

impl_random_goe(kw) ==
    LET k == [size |-> kw.size, nnorm |-> FALSE,
              dtype |-> kw.dtype, batch_shape |-> kw.batch_shape]
    IN  Call("random_gre", k, impl_random_gre(k))
        \o <<Mul("x", "ret", kw.sigma),
             Add("s", "x", "x", TRUE, FALSE),
             DivSqrt("h", "s", 2, 1),
             Ret("h")>>

\* impl_random_wre with the Gram matrix formed as x.transpose(-2, -1) @ x
impl_random_wre_gram_swapped(kw) ==
    LET actual_size_m == PyOr(kw.size_m, kw.size_n)
    IN  <<Randn("x", kw.batch_shape \o <<kw.size_n, actual_size_m>>, kw.dtype),
          Mul("x", "x", kw.sigma),
          MatMul("w", "x", TRUE, "x", FALSE, FALSE),
          Ret("w")>>

impl_random_wre(kw) ==
    LET actual_size_m == PyOr(kw.size_m, kw.size_n)
    IN  <<Randn("x", kw.batch_shape \o <<kw.size_n, actual_size_m>>, kw.dtype),
          Mul("x", "x", kw.sigma),
          MatMul("w", "x", FALSE, "x", TRUE, FALSE),
          Ret("w")>>

impl_random_wce(kw) ==
    LET actual_size_m == PyOr(kw.size_m, kw.size_n)
    IN  <<Randn("x", kw.batch_shape \o <<kw.size_n, actual_size_m>>, kw.dtype),
          Mul("x", "x", kw.sigma),
          MatMul("w", "x", FALSE, "x", TRUE, TRUE),
          Ret("w")>>

impl_random_jre(kw) ==
    LET actual_size_m1 == PyOr(kw.size_m1, kw.size_n)
        actual_size_m2 == PyOr(kw.size_m2, kw.size_n)
    IN  <<Randn("x", kw.batch_shape \o <<kw.size_n, actual_size_m1>>, kw.dtype),
          MatMul("a1", "x", FALSE, "x", TRUE, FALSE),
          Randn("y", kw.batch_shape \o <<kw.size_n, actual_size_m2>>, kw.dtype),
          MatMul("yy", "y", FALSE, "y", TRUE, FALSE),
          Add("a2", "a1", "yy", FALSE, FALSE),
          Inv("inv", "a2"),
          MatMul("j", "a1", FALSE, "inv", FALSE, FALSE),
          Ret("j")>>

impl_random_jce(kw) ==
    LET actual_size_m1 == PyOr(kw.size_m1, kw.size_n)
        actual_size_m2 == PyOr(kw.size_m2, kw.size_n)
    IN  <<Randn("x", kw.batch_shape \o <<kw.size_n, actual_size_m1>>, kw.dtype),
          MatMul("a1", "x", FALSE, "x", TRUE, TRUE),
          Randn("y", kw.batch_shape \o <<kw.size_n, actual_size_m2>>, kw.dtype),
          MatMul("yy", "y", FALSE, "y", TRUE, TRUE),
          Add("a2", "a1", "yy", FALSE, FALSE),
          Inv("inv", "a2"),
          MatMul("j", "a1", FALSE, "inv", FALSE, FALSE),
          Ret("j")>>

(***************************************************************************)
(* Public entry points (src/thrmt/api.py).                                 *)
(***************************************************************************)
\* bs = () if batch_shape is None else batch_shape
Bs(batch_shape) == IF batch_shape = None THEN <<>> ELSE batch_shape[1]

api_random_cue(a) ==
    LET kw == [size |-> a.size_n, dtype |-> a.dtype, batch_shape |-> Bs(a.batch_shape)]
    IN  <<CheckSize(a.size_n, "size"), CheckDtype(a.dtype, complex_dtypes, "dtype")>>
        \o Call("random_cue", kw, impl_random_cue(kw))
        \o <<Ret("ret")>>

api_random_coe(a) ==
    LET kw == [size |-> a.size_n, dtype |-> a.dtype, batch_shape |-> Bs(a.batch_shape)]
    IN  <<CheckSize(a.size_n, "size"), CheckDtype(a.dtype, complex_dtypes, "dtype")>>
        \o Call("random_coe", kw, impl_random_coe(kw))
        \o <<Ret("ret")>>

\* api_random_gue with check_sigma run on the way out instead of on the way in
api_random_gue_late_sigma(a) ==
    LET kw == [size |-> a.size_n, sigma |-> a.sigma, dtype |-> a.dtype,
               batch_shape |-> Bs(a.batch_shape)]
    IN  <<CheckSize(a.size_n, "size"),
          CheckDtype(a.dtype, complex_dtypes, "dtype")>>
        \o Call("random_gue", kw, impl_random_gue(kw))
        \o <<CheckSigma(a.sigma, "sigma"), Ret("ret")>>

api_random_gue(a) ==
    LET kw == [size |-> a.size_n, sigma |-> a.sigma, dtype |-> a.dtype,
               batch_shape |-> Bs(a.batch_shape)]
    IN  <<CheckSize(a.size_n, "size"),
          CheckDtype(a.dtype, complex_dtypes, "dtype"),
          CheckSigma(a.sigma, "sigma")>>
        \o Call("random_gue", kw, impl_random_gue(kw))
        \o <<Ret("ret")>>

api_random_goe(a) ==
    LET kw == [size |-> a.size_n, sigma |-> a.sigma, dtype |-> a.dtype,
               batch_shape |-> Bs(a.batch_shape)]
    IN  <<CheckSize(a.size_n, "size"),
          CheckDtype(a.dtype, real_dtypes, "dtype"),
          CheckSigma(a.sigma, "sigma")>>
        \o Call("random_goe", kw, impl_random_goe(kw))
        \o <<Ret("ret")>>

\* api_random_wre without the check of a supplied size_m
api_random_wre_unchecked_m(a) ==
    LET kw == [size_n |-> a.size_n, sigma |-> a.sigma, size_m |-> a.size_m1,
               dtype |-> a.dtype, batch_shape |-> Bs(a.batch_shape)]
    IN  <<CheckSize(a.size_n, "size_n"), CheckSigma(a.sigma, "sigma")>>
        \o Call("random_wre", kw, impl_random_wre(kw))
        \o <<Ret("ret")>>

api_random_wre(a) ==
    LET kw == [size_n |-> a.size_n, sigma |-> a.sigma, size_m |-> a.size_m1,
               dtype |-> a.dtype, batch_shape |-> Bs(a.batch_shape)]
    IN  <<CheckSize(a.size_n, "size_n"), CheckSigma(a.sigma, "sigma")>>
        \o (IF a.size_m1 # None THEN <<CheckSize(a.size_m1[1], "size_m")>> ELSE <<>>)
        \o Call("random_wre", kw, impl_random_wre(kw))
        \o <<Ret("ret")>>

api_random_wce(a) ==
    LET kw == [size_n |-> a.size_n, sigma |-> a.sigma, size_m |-> a.size_m1,
               dtype |-> a.dtype, batch_shape |-> Bs(a.batch_shape)]
    IN  <<CheckSize(a.size_n, "size_n"), CheckSigma(a.sigma, "sigma")>>
        \o (IF a.size_m1 # None THEN <<CheckSize(a.size_m1[1], "size_m")>> ELSE <<>>)
        \o Call("random_wce", kw, impl_random_wce(kw))
        \o <<Ret("ret")>>

\* api_random_jre with check_dtype moved in front of the dimension checks
api_random_jre_dtype_first(a) ==
    LET kw == [size_n |-> a.size_n, size_m1 |-> a.size_m1, size_m2 |-> a.size_m2,
               dtype |-> a.dtype, batch_shape |-> Bs(a.batch_shape)]
    IN  <<CheckDtype(a.dtype, real_dtypes, "dtype"), CheckSize(a.size_n, "size_n")>>
        \o (IF a.size_m1 # None THEN <<CheckSize(a.size_m1[1], "size_m1")>> ELSE <<>>)
        \o (IF a.size_m2 # None THEN <<CheckSize(a.size_m2[1], "size_m2")>> ELSE <<>>)
        \o Call("random_jre", kw, impl_random_jre(kw))
        \o <<Ret("ret")>>

api_random_jre(a) ==
    LET kw == [size_n |-> a.size_n, size_m1 |-> a.size_m1, size_m2 |-> a.size_m2,
               dtype |-> a.dtype, batch_shape |-> Bs(a.batch_shape)]
    IN  <<CheckSize(a.size_n, "size_n")>>
        \o (IF a.size_m1 # None THEN <<CheckSize(a.size_m1[1], "size_m1")>> ELSE <<>>)
        \o (IF a.size_m2 # None THEN <<CheckSize(a.size_m2[1], "size_m2")>> ELSE <<>>)
        \o <<CheckDtype(a.dtype, real_dtypes, "dtype")>>
        \o Call("random_jre", kw, impl_random_jre(kw))
        \o <<Ret("ret")>>

api_random_jce(a) ==
    LET kw == [size_n |-> a.size_n, size_m1 |-> a.size_m1, size_m2 |-> a.size_m2,
               dtype |-> a.dtype, batch_shape |-> Bs(a.batch_shape)]
    IN  <<CheckSize(a.size_n, "size_n")>>
        \o (IF a.size_m1 # None THEN <<CheckSize(a.size_m1[1], "size_m1")>> ELSE <<>>)
        \o (IF a.size_m2 # None THEN <<CheckSize(a.size_m2[1], "size_m2")>> ELSE <<>>)
        \o <<CheckDtype(a.dtype, complex_dtypes, "dtype")>>
        \o Call("random_jce", kw, impl_random_jce(kw))
        \o <<Ret("ret")>>

(***************************************************************************)
(* The program a call executes.  a.fn names the function the caller        *)
(* invokes: one of the eight entry points of thrmt.api, or a Ginibre       *)
(* generator of thrmt.impl called directly.                                *)
(***************************************************************************)
Circular == {"random_cue", "random_coe"}

Gaussian == {"random_gue", "random_goe"}

Wishart == {"random_wre", "random_wce"}

Jacobi == {"random_jre", "random_jce"}

EntryPoints == Circular \cup Gaussian \cup Wishart \cup Jacobi

Ginibre == {"random_gre", "random_gce"}

\* the realness family each ensemble is fixed to
Family(fn) ==
    IF fn \in {"random_goe", "random_wre", "random_jre", "random_gre"}
    THEN real_dtypes ELSE complex_dtypes

GinibreKw(a) ==
    [size |-> a.size_n, nnorm |-> a.nnorm, cnorm |-> a.cnorm,
     dtype |-> a.dtype, batch_shape |-> Bs(a.batch_shape)]

Program(a) ==
    CASE a.fn = "random_cue" -> api_random_cue(a)
      [] a.fn = "random_coe" -> api_random_coe(a)
      [] a.fn = "random_gue" -> api_random_gue(a)
      [] a.fn = "random_goe" -> api_random_goe(a)
      [] a.fn = "random_wre" -> api_random_wre(a)
      [] a.fn = "random_wce" -> api_random_wce(a)
      [] a.fn = "random_jre" -> api_random_jre(a)
      [] a.fn = "random_jce" -> api_random_jce(a)
      [] a.fn = "random_gre" -> impl_random_gre(GinibreKw(a))
      [] a.fn = "random_gce" -> impl_random_gce(GinibreKw(a))

\* the frame the caller's invocation pushes
TopFrame(a) ==
    IF a.fn \in Ginibre
    THEN [layer |-> "impl", fn |-> a.fn, kw |-> GinibreKw(a)]
    ELSE [layer |-> "api", fn |-> a.fn, kw |-> a]

(***************************************************************************)
(* Tensors and the shape rules of the torch operations.                    *)
(***************************************************************************)
\* sc is the square of the scalar factor applied to the raw draw, in lowest terms
Tensor(shape, dtype, sc, finite) ==
    [shape |-> shape, dtype |-> dtype, sc |-> sc, finite |-> finite]

Batch(shape) == SubSeq(shape, 1, Len(shape) - 2)

Rows(shape) == shape[Len(shape) - 1]

Cols(shape) == shape[Len(shape)]

\* t.transpose(-2, -1)
TransposeShape(shape) == Batch(shape) \o <<Cols(shape), Rows(shape)>>

Min(a, b) == IF a <= b THEN a ELSE b

Pending == [kind |-> "pending", err |-> "", param |-> "", shape |-> <<>>,
            dtype |-> "", sc |-> <<1, 1>>, finite |-> TRUE]

Raised(err, param) == [Pending EXCEPT !.kind = "raise", !.err = err, !.param = param]

Returned(t) ==
    [Pending EXCEPT !.kind = "tensor", !.shape = t.shape, !.dtype = t.dtype,
                    !.sc = t.sc, !.finite = t.finite]

Log(op, dst, shape, pos) == [op |-> op, dst |-> dst, shape |-> shape, pos |-> pos]

(***************************************************************************)
(* Steps of one execution context p.  pc[p] indexes the statement to run,  *)
(* 0 once the call has returned or raised.                                 *)
(***************************************************************************)
Ctx == DOMAIN pc

Instr(p) == Program(args[p])[pc[p]]

At(p, op) == pc[p] >= 1 /\ Instr(p).op = op

\* an exception leaves the call: nothing is returned
Raise(p, err, param) ==
    /\ pc' = [pc EXCEPT ![p] = 0]
    /\ out' = [out EXCEPT ![p] = Raised(err, param)]
    /\ stack' = [stack EXCEPT ![p] = <<>>]
    /\ UNCHANGED <<args, env, ops, rng>>

\* a tensor operation stored its result t in local dst
Store(p, op, dst, t) ==
    /\ pc' = [pc EXCEPT ![p] = @ + 1]
    /\ env' = [env EXCEPT ![p] = (dst :> t) @@ @]
    /\ ops' = [ops EXCEPT ![p] = Append(@, Log(op, dst, t.shape, -1))]
    /\ UNCHANGED <<args, stack, out, rng>>

DoCheckSize(p) ==
    /\ At(p, "check_size")
    /\ IF check_size(Instr(p).v)
       THEN /\ pc' = [pc EXCEPT ![p] = @ + 1]
            /\ UNCHANGED <<args, stack, env, ops, out, rng>>
       ELSE Raise(p, "InvalidDimension", Instr(p).param)

DoCheckSigma(p) ==
    /\ At(p, "check_sigma")
    /\ IF check_sigma(Instr(p).v)
       THEN /\ pc' = [pc EXCEPT ![p] = @ + 1]
            /\ UNCHANGED <<args, stack, env, ops, out, rng>>
       ELSE Raise(p, "InvalidScale", Instr(p).param)

DoCheckDtype(p) ==
    /\ At(p, "check_dtype")
    /\ IF check_dtype(Instr(p).d, Instr(p).family)
       THEN /\ pc' = [pc EXCEPT ![p] = @ + 1]
            /\ UNCHANGED <<args, stack, env, ops, out, rng>>
       ELSE Raise(p, "InvalidDtype", Instr(p).param)

DoCall(p) ==
    /\ At(p, "call")
    /\ pc' = [pc EXCEPT ![p] = @ + 1]
    /\ stack' = [stack EXCEPT ![p] =
                    Append(@, [layer |-> "impl", fn |-> Instr(p).fn, kw |-> Instr(p).kw])]
    /\ UNCHANGED <<args, env, ops, out, rng>>

\* how far one th.randn advances the generator: one normal variate per real
\* entry, two per complex entry
StreamUse(shape, dtype) == Numel(shape) * (IF dtype \in complex_dtypes THEN 2 ELSE 1)

\* th.randn draws from the process-wide default generator: the draw is the
\* stretch of the stream that starts at rng
DoRandn(p) ==
    /\ At(p, "randn")
    /\ LET i == Instr(p)
       IN  IF \E k \in 1 .. Len(i.shape) : i.shape[k] < 0
           THEN Raise(p, "RuntimeError", i.dst)
           ELSE /\ pc' = [pc EXCEPT ![p] = @ + 1]
                /\ env' = [env EXCEPT ![p] =
                              (i.dst :> Tensor(i.shape, i.dtype, <<1, 1>>, TRUE)) @@ @]
                /\ ops' = [ops EXCEPT ![p] = Append(@, Log("randn", i.dst, i.shape, rng))]
                /\ rng' = rng + StreamUse(i.shape, i.dtype)
                /\ UNCHANGED <<args, stack, out>>

DoScalar(p) ==
    /\ At(p, "scalar")
    /\ LET i == Instr(p)
           t == env[p][i.src]
       IN  Store(p, "scalar", i.dst,
                 Tensor(t.shape, t.dtype, FracMul(t.sc, i.f), t.finite /\ i.f[2] # 0))

DoMatMul(p) ==
    /\ At(p, "matmul")
    /\ LET i == Instr(p)
           ta == env[p][i.a]
           tb == env[p][i.b]
           sa == IF i.ta THEN TransposeShape(ta.shape) ELSE ta.shape
           sb == IF i.tb THEN TransposeShape(tb.shape) ELSE tb.shape
       IN  IF Batch(sa) = Batch(sb) /\ Cols(sa) = Rows(sb)
           THEN Store(p, "matmul", i.dst,
                      Tensor(Batch(sa) \o <<Rows(sa), Cols(sb)>>, ta.dtype,
                             FracMul(ta.sc, tb.sc), ta.finite /\ tb.finite))
           ELSE Raise(p, "RuntimeError", i.dst)

DoAdd(p) ==
    /\ At(p, "add")
    /\ LET i == Instr(p)
           ta == env[p][i.a]
           tb == env[p][i.b]
           sb == IF i.tb THEN TransposeShape(tb.shape) ELSE tb.shape
       IN  IF ta.shape = sb
           THEN Store(p, "add", i.dst,
                      Tensor(sb, ta.dtype, IF ta.sc = tb.sc THEN ta.sc ELSE <<0, 0>>,
                             ta.finite /\ tb.finite))
           ELSE Raise(p, "RuntimeError", i.dst)

\* reduced QR of a (*, m, n) tensor: q is (*, m, k), r is (*, k, n), k = min(m, n)
DoQR(p) ==
    /\ At(p, "qr")
    /\ LET i == Instr(p)
           t == env[p][i.src]
           k == Min(Rows(t.shape), Cols(t.shape))
           q == Tensor(Batch(t.shape) \o <<Rows(t.shape), k>>, t.dtype, <<1, 1>>, t.finite)
           r == Tensor(Batch(t.shape) \o <<k, Cols(t.shape)>>, t.dtype, t.sc, t.finite)
       IN  /\ pc' = [pc EXCEPT ![p] = @ + 1]
           /\ env' = [env EXCEPT ![p] = (i.q :> q) @@ (i.r :> r) @@ @]
           /\ ops' = [ops EXCEPT ![p] = Append(@, Log("qr", i.q, q.shape, -1))]
           /\ UNCHANGED <<args, stack, out, rng>>

DoDiagPhase(p) ==
    /\ At(p, "diag_phase")
    /\ LET i == Instr(p)
           t == env[p][i.src]
           k == Min(Rows(t.shape), Cols(t.shape))
       IN  Store(p, "diag_phase", i.dst,
                 Tensor(Batch(t.shape) \o <<k, k>>, t.dtype, <<1, 1>>, t.finite))

\* what th.linalg.inv can do with its argument: invert it, raise LinAlgError on
\* an exactly singular pivot, or overflow to Inf/NaN on a near-singular one
InvOutcomes == {"ok", "singular", "nonfinite"}

DoInv(p) ==
    /\ At(p, "inv")
    /\ LET i == Instr(p)
           t == env[p][i.src]
       IN  \E o \in InvOutcomes :
              IF Rows(t.shape) # Cols(t.shape)
              THEN Raise(p, "RuntimeError", i.dst)
              ELSE IF o = "singular"
              THEN Raise(p, "LinAlgError", i.dst)
              ELSE Store(p, "inv", i.dst,
                         Tensor(t.shape, t.dtype, <<t.sc[2], t.sc[1]>>,
                                t.finite /\ o = "ok"))

DoRet(p) ==
    /\ At(p, "ret")
    /\ LET t == env[p][Instr(p).src]
           rest == SubSeq(stack[p], 1, Len(stack[p]) - 1)
       IN  /\ stack' = [stack EXCEPT ![p] = rest]
           /\ env' = [env EXCEPT ![p] = ("ret" :> t) @@ @]
           /\ pc' = [pc EXCEPT ![p] = IF rest = <<>> THEN 0 ELSE @ + 1]
           /\ out' = [out EXCEPT ![p] = IF rest = <<>> THEN Returned(t) ELSE @]
           /\ UNCHANGED <<args, ops, rng>>

(***************************************************************************)
(* One execution context calling a public entry point.                      *)
(***************************************************************************)
\* the arguments of a call; size_n is also `size`, size_m1 also the `size_m` of
\* random_wre/random_wce; a parameter the function does not have keeps its default
Args(fn, n, s, m1, m2, d, b, nn, cn) ==
    [fn |-> fn, size_n |-> n, sigma |-> s, size_m1 |-> m1, size_m2 |-> m2,
     dtype |-> d, batch_shape |-> b, nnorm |-> nn, cnorm |-> cn]

PublicInputs ==
    {Args(fn, n, 1, None, None, d, b, FALSE, TRUE) :
        fn \in Circular, n \in Sizes, d \in Dtypes, b \in BatchArgs}
    \cup {Args(x[1], x[2], s, None, None, d, b, FALSE, TRUE) :
        x \in Gaussian \X Sizes, s \in Sigmas, d \in Dtypes, b \in BatchArgs}
    \cup {Args(x[1], x[2], x[3], m, None, d, b, FALSE, TRUE) :
        x \in Wishart \X Sizes \X Sigmas, m \in OptSizes, d \in Dtypes, b \in BatchArgs}
    \cup {Args(x[1], x[2], 1, x[3], m2, d, b, FALSE, TRUE) :
        x \in Jacobi \X Sizes \X OptSizes, m2 \in OptSizes, d \in Dtypes, b \in BatchArgs}

Start(ctxs, inputs) ==
    /\ args \in [ctxs -> inputs]
    /\ pc = [p \in ctxs |-> 1]
    /\ stack = [p \in ctxs |-> <<TopFrame(args[p])>>]
    /\ env = [p \in ctxs |-> <<>>]
    /\ ops = [p \in ctxs |-> <<>>]
    /\ out = [p \in ctxs |-> Pending]
    /\ rng = 0

Init == Start({1}, PublicInputs)

Next ==
    \/ \E p \in Ctx : DoCheckSize(p)
    \/ \E p \in Ctx : DoCheckSigma(p)
    \/ \E p \in Ctx : DoCheckDtype(p)
    \/ \E p \in Ctx : DoCall(p)
    \/ \E p \in Ctx : DoRandn(p)
    \/ \E p \in Ctx : DoScalar(p)
    \/ \E p \in Ctx : DoMatMul(p)
    \/ \E p \in Ctx : DoAdd(p)
    \/ \E p \in Ctx : DoQR(p)
    \/ \E p \in Ctx : DoDiagPhase(p)
    \/ \E p \in Ctx : DoInv(p)
    \/ \E p \in Ctx : DoRet(p)

Spec == Init /\ [][Next]_vars

(***************************************************************************)
(* Two execution contexts calling entry points at once.  Both draw from    *)
(* the one default generator; the statements of the two calls interleave.  *)
(***************************************************************************)
\* dtype defaults of the entry points
DefaultDtype(fn) == IF Family(fn) = real_dtypes THEN "double" ELSE "cdouble"

ConcInputs ==
    {Args(fn, n, 1, None, None, DefaultDtype(fn), None, FALSE, TRUE) :
        fn \in EntryPoints, n \in 0 .. ConcMaxSize}

ConcInit == Start({1, 2}, ConcInputs)

SpecConc == ConcInit /\ [][Next]_vars

(***************************************************************************)
(* One execution context calling a Ginibre generator of thrmt.impl.        *)
(***************************************************************************)
GinibreInputs ==
    {Args("random_gce", n, 1, None, None, d, Some(b), x[1], x[2]) :
        n \in 1 .. MaxSize, d \in complex_dtypes, b \in BatchShapes,
        x \in BOOLEAN \X BOOLEAN}
    \cup {Args("random_gre", n, 1, None, None, d, Some(b), nn, TRUE) :
        n \in 1 .. MaxSize, d \in real_dtypes, b \in BatchShapes, nn \in BOOLEAN}

GinibreInit == Start({1}, GinibreInputs)

GinibreNext ==
    \/ \E p \in Ctx : DoRandn(p)
    \/ \E p \in Ctx : DoScalar(p)
    \/ \E p \in Ctx : DoRet(p)

SpecGinibre == GinibreInit /\ [][GinibreNext]_vars

(***************************************************************************)
(* The GUE constructor on matrix entries.  A complex number is <<re, im>>  *)
(* in thousandths; a matrix maps <<i, j>> to its entry.  Draws take their  *)
(* entries from EntryVals.                                                 *)
(***************************************************************************)
EntryVals == {<<0, 1000>>, <<1000, -1000>>, <<-2000, 0>>}

Matrices(n) == [(1 .. n) \X (1 .. n) -> EntryVals]

\* x / msqrt(2), rounded toward zero as IEEE rounding is sign-symmetric
DivSqrt2(v) ==
    IF v < 0 THEN -((-v * 10000) \div 14142) ELSE (v * 10000) \div 14142

\* m * k, k a real scalar
MScale(m, k) == [ij \in DOMAIN m |-> <<m[ij][1] * k, m[ij][2] * k>>]

\* m.transpose(-2, -1)
MTranspose(m) == [ij \in DOMAIN m |-> m[<<ij[2], ij[1]>>]]

\* m.conj()
MConj(m) == [ij \in DOMAIN m |-> <<m[ij][1], -m[ij][2]>>]

\* a + b
MAdd(a, b) == [ij \in DOMAIN a |-> <<a[ij][1] + b[ij][1], a[ij][2] + b[ij][2]>>]

\* m / msqrt(2)
MDivSqrt2(m) == [ij \in DOMAIN m |-> <<DivSqrt2(m[ij][1]), DivSqrt2(m[ij][2])>>]

\* random_gue symmetrizing with the plain transpose, as random_goe does
gue_matrix_plain_transpose(g, sigma) ==
    LET x == MScale(g, sigma)
    IN  MDivSqrt2(MAdd(x, MTranspose(x)))

\* random_gue on the drawn matrix g
gue_matrix(g, sigma) ==
    LET x == MScale(g, sigma)
    IN  MDivSqrt2(MAdd(x, MConj(MTranspose(x))))

\* a = random_gce(size): the draw, entry by entry
GueDraw(p) ==
    /\ pc[p] = 1
    /\ \E g \in Matrices(args[p].size_n) :
          env' = [env EXCEPT ![p] = ("g" :> g) @@ @]
    /\ pc' = [pc EXCEPT ![p] = 2]
    /\ ops' = [ops EXCEPT ![p] =
                  Append(@, Log("randn", "g", <<args[p].size_n, args[p].size_n>>, rng))]
    /\ rng' = rng + StreamUse(<<args[p].size_n, args[p].size_n>>, args[p].dtype)
    /\ UNCHANGED <<args, stack, out>>

\* return (x + x.transpose(-2, -1).conj()) / msqrt(2), x = a * sigma
GueReturn(p) ==
    /\ pc[p] = 2
    /\ env' = [env EXCEPT ![p] = ("h" :> gue_matrix(env[p]["g"], args[p].sigma)) @@ @]
    /\ pc' = [pc EXCEPT ![p] = 0]
    /\ stack' = [stack EXCEPT ![p] = <<>>]
    /\ out' = [out EXCEPT ![p] =
                  Returned(Tensor(<<args[p].size_n, args[p].size_n>>, args[p].dtype,
                                  Frac(args[p].sigma * args[p].sigma, 2), TRUE))]
    /\ UNCHANGED <<args, ops, rng>>

GueInputs ==
    {Args("random_gue", n, s, None, None, d, None, FALSE, TRUE) :
        n \in 1 .. ValMaxSize, s \in 1 .. MaxSigma, d \in complex_dtypes}

GueInit == Start({1}, GueInputs)

GueNext ==
    \/ \E p \in Ctx : GueDraw(p)
    \/ \E p \in Ctx : GueReturn(p)

SpecGue == GueInit /\ [][GueNext]_vars

(***************************************************************************)
(* Properties of the public entry points, checked under Spec.              *)
(***************************************************************************)
Public(p) == args[p].fn \in EntryPoints

Done(p) == pc[p] = 0

\* some declared dimension of the call is below 1
AnyDimBad(a) ==
    \/ a.size_n < 1
    \/ a.size_m1 # None /\ a.size_m1[1] < 1
    \/ a.size_m2 # None /\ a.size_m2[1] < 1

\* C1: a call that ends in a validation error has performed no draw and no
\* tensor operation: the error precedes all sampling and linear algebra.
C1_ValidationBeforeSampling ==
    \A p \in Ctx :
        Public(p) /\ out[p].kind = "raise" /\ out[p].err \in ValidationErrors
            => ops[p] = <<>>

C1_Witness ==
    \E p \in Ctx :
        /\ args[p].fn = "random_gue"
        /\ out[p].kind = "raise" /\ out[p].err = "InvalidScale"
        /\ ops[p] = <<>>

\* C2 as stated: a call with any declared dimension below 1 fails with
\* InvalidDimension.
C2_BadDimensionIsInvalidDimension ==
    \A p \in Ctx :
        Public(p) /\ Done(p) /\ AnyDimBad(args[p])
            => out[p].kind = "raise" /\ out[p].err = "InvalidDimension"

\* C2 amended: a call with any declared dimension below 1 fails with a
\* validation error; it is InvalidDimension, except that random_wre/random_wce
\* check sigma between size_n and size_m, so a call with size_n >= 1 and
\* sigma <= 0 fails with InvalidScale.
C2_BadDimensionRejected ==
    \A p \in Ctx :
        Public(p) /\ Done(p) /\ AnyDimBad(args[p])
            => /\ out[p].kind = "raise"
               /\ out[p].err =
                    IF args[p].fn \in Wishart /\ args[p].size_n >= 1 /\ args[p].sigma <= 0
                    THEN "InvalidScale" ELSE "InvalidDimension"

C2_Witness ==
    \E p \in Ctx :
        /\ args[p].fn = "random_jre" /\ args[p].size_n >= 1
        /\ args[p].size_m1 = None /\ args[p].size_m2 = Some(0)
        /\ args[p].dtype \in complex_dtypes
        /\ out[p].kind = "raise" /\ out[p].err = "InvalidDimension"
        /\ out[p].param = "size_m2"

\* C3: a call whose dtype is outside the ensemble's realness family touches no
\* sampler, returns no result, and, its other arguments being valid, fails
\* with InvalidDtype.
C3_DtypeFamilyEnforced ==
    \A p \in Ctx :
        Public(p) /\ args[p].dtype \notin Family(args[p].fn)
            => /\ ops[p] = <<>>
               /\ out[p].kind # "tensor"
               /\ Done(p) /\ ~AnyDimBad(args[p]) /\ check_sigma(args[p].sigma)
                    => out[p].kind = "raise" /\ out[p].err = "InvalidDtype"

\* the statement th.linalg.inv of a Jacobi call has run and did not invert
InversionFailed(p) ==
    \/ out[p].kind = "raise" /\ out[p].err = "LinAlgError"
    \/ "inv" \in DOMAIN env[p] /\ ~env[p]["inv"].finite

\* C4: a Jacobi call whose inversion fails or yields non-finite output ends in
\* an error that is no validation error, never in a returned tensor holding
\* NaN/Inf, and draws X and Y once each (no retry).  The LinAlgError of the
\* inverse is taken for the NumericalInstability condition.
C4_InversionFailureSurfaced ==
    \A p \in Ctx :
        Public(p) /\ args[p].fn \in Jacobi
            => /\ Len(SelectSeq(ops[p], LAMBDA o : o.op = "randn")) <= 2
               /\ Done(p) /\ InversionFailed(p)
                    => /\ out[p].kind = "raise"
                       /\ out[p].err \notin ValidationErrors
               /\ out[p].kind = "tensor" => out[p].finite

\* C5: every constructor frame of a Wishart or Jacobi ensemble holds a
\* concrete integer for each secondary dimension: the entry point resolved
\* the default before the call.
C5_DefaultResolvedByEntryPoint ==
    \A p \in Ctx :
        \A k \in 1 .. Len(stack[p]) :
            LET f == stack[p][k]
            IN  f.layer = "impl"
                    => /\ f.fn \in Wishart => f.kw.size_m # None
                       /\ f.fn \in Jacobi => f.kw.size_m1 # None /\ f.kw.size_m2 # None

AskedCols(a, dst) ==
    LET m == IF dst = "y" THEN a.size_m2 ELSE a.size_m1
    IN  IF m = None THEN a.size_n ELSE m[1]

\* C10: in a Wishart or Jacobi call, every Gaussian draw has as many columns
\* as the secondary dimension the caller supplied, and as the primary
\* dimension when it was omitted.
C10_DrawColumns ==
    \A p \in Ctx :
        Public(p) /\ args[p].fn \in Wishart \cup Jacobi
            => \A k \in 1 .. Len(ops[p]) :
                  ops[p][k].op = "randn"
                      => Cols(ops[p][k].shape) = AskedCols(args[p], ops[p][k].dst)

C10_Witness ==
    \E p \in Ctx :
        /\ args[p].fn = "random_jce"
        /\ args[p].size_m1 = None
        /\ args[p].size_m2 # None /\ args[p].size_m2[1] # args[p].size_n
        /\ \E k \in 1 .. Len(ops[p]) :
              /\ ops[p][k].op = "randn" /\ ops[p][k].dst = "y"
              /\ Cols(ops[p][k].shape) = args[p].size_m2[1]

(***************************************************************************)
(* Properties of concurrent calls, checked under SpecConc.                 *)
(***************************************************************************)
Draws(p) == SelectSeq(ops[p], LAMBDA o : o.op = "randn")

\* where draw k of call p starts in a stream that only call p consumes, the
\* stream being in the state the call's first draw found it in
RECURSIVE OwnPos(_, _)
OwnPos(p, k) ==
    IF k = 1 THEN Draws(p)[1].pos
    ELSE OwnPos(p, k - 1) + StreamUse(Draws(p)[k - 1].shape, args[p].dtype)

\* C7: the values a call draws are those of a stream of its own: each draw
\* starts where the call's previous draw ended (Y right after X in a Jacobi
\* call), wherever the other call's draws fall in time.
C7_DrawsFromOwnStream ==
    \A p \in Ctx :
        \A k \in 1 .. Len(Draws(p)) : Draws(p)[k].pos = OwnPos(p, k)

(***************************************************************************)
(* Properties of the Ginibre generators, checked under SpecGinibre.        *)
(***************************************************************************)
\* the square of the factor the four-state table gives (size >= 1)
TableFactor2(nnorm, cnorm, size, ff) ==
    CASE ~nnorm /\ ~cnorm -> ff
      [] ~nnorm /\ cnorm -> Frac(1, 1)
      [] nnorm /\ ~cnorm -> Frac(2, size)
      [] nnorm /\ cnorm -> Frac(1, size)

\* C9 as stated: the complex Ginibre generator scales the raw draw by 1, 1,
\* sqrt(2)/sqrt(size), 1/sqrt(size) for (normalize, complex_normalize) =
\* (f,f), (f,t), (t,f), (t,t).
C9_FourStateTable ==
    \A p \in Ctx :
        args[p].fn = "random_gce" /\ out[p].kind = "tensor"
            => out[p].sc =
                 TableFactor2(args[p].nnorm, args[p].cnorm, args[p].size_n, Frac(1, 1))

\* C9 amended: the factor for (f,f) is sqrt(2); the other three states are as
\* the table gives them.
C9_FourStateTableSqrt2 ==
    \A p \in Ctx :
        args[p].fn = "random_gce" /\ out[p].kind = "tensor"
            => out[p].sc =
                 TableFactor2(args[p].nnorm, args[p].cnorm, args[p].size_n, Frac(2, 1))

C9_Witness ==
    \E p \in Ctx :
        /\ args[p].fn = "random_gce" /\ args[p].nnorm /\ ~args[p].cnorm
        /\ args[p].size_n = MaxSize
        /\ out[p].kind = "tensor" /\ out[p].sc = Frac(2, MaxSize)

(***************************************************************************)
(* Properties of the GUE constructor's entries, checked under SpecGue.     *)
(***************************************************************************)
\* C8: the GUE result is Hermitian: entry (i, j) is the complex conjugate of
\* entry (j, i), and every diagonal entry has zero imaginary part.
C8_GueHermitian ==
    \A p \in Ctx :
        out[p].kind = "tensor"
            => LET h == env[p]["h"]
               IN  \A i \in 1 .. args[p].size_n, j \in 1 .. args[p].size_n :
                     /\ h[<<i, j>>][1] = h[<<j, i>>][1]
                     /\ h[<<i, j>>][2] = -h[<<j, i>>][2]
                     /\ h[<<i, i>>][2] = 0

C8_Witness ==
    \E p \in Ctx :
        /\ out[p].kind = "tensor" /\ args[p].size_n = ValMaxSize
        /\ env[p]["g"][<<1, 1>>][2] # 0
        /\ env[p]["g"][<<1, 2>>] # env[p]["g"][<<2, 1>>]
        /\ env[p]["h"][<<1, 2>>][2] # 0
        /\ env[p]["h"][<<1, 1>>][1] # 0

====
